---- MODULE Spec2Model ----
(***************************************************************************)
(* The presentation playback controller of the latest App variant          *)
(* (src/frontend/src/App.jsx, lines 374-968) as a state machine.            *)
(*                                                                         *)
(* One action is one task of the browser's event loop: a click handler, a  *)
(* network response with the code that follows the await, a speech event   *)
(* with the code that follows the awaited speak(), a timer callback.       *)
(* React re-renders and runs the two ref-mirroring effects (lines 447-453) *)
(* before the next such task, so every action ends with Effects.           *)
(* The content service, the speech engine and the recogniser are outside   *)
(* the repository: their answers are nondeterministic choices.             *)
(***************************************************************************)
EXTENDS Integers, Sequences, FiniteSets, TLC

\* ---------------------------------------------------------------- bounds
\* The deck sizes the service answers with, and the number of commands of the
\* user that start work (start, ask, generate, load, reset, delete) in a run.
MaxSlides == 2
MaxOps == 2

\* slice(0, 20) of generateSlides
HistoryKeep == 20

\* Slide numbers the content service may answer with: in range and out of
\* range on both sides (the client does not control them).
SlideVals == {0 - 1, MaxSlides + 2} \cup 1..MaxSlides

VARIABLES
  slides, hasSlides, isLoadingSlides, topic, isGenerating,
  pastPresentations, stored, slidesReq, genReq,
  currentSlide, currentSlideRef, isPresenting, isPresentingRef,
  shouldContinueRef, isSpeaking, isProcessing, aiResponse,
  isRecording, transcript, transcriptRef, recognition,
  chains, nChains, nOps, askedAt,
  wsOpen, wire, last

\* The status-channel hook (useWebSocket): the sockets connect() has created
\* in order of creation, wsRef (0 is null), the pending reconnect timers and
\* reconnectTimeoutRef (0 is null), isConnected, whether the hook is mounted,
\* and the hook step just taken.
VARIABLES
  socks, wsRef, timers, reconnectTimeoutRef, nTimers, isConnected, wsMounted,
  wsLast

wsVars == <<socks, wsRef, timers, reconnectTimeoutRef, nTimers, isConnected,
            wsMounted, wsLast>>

\* The speech-input hook (useSpeechRecognition, continuous-capable): whether
\* the platform has SpeechRecognition, the recogniser's state, the hook's
\* refs and state, the pending 100 ms deferred starts, whether the hook is
\* mounted, and two observations: denied (a not-allowed or aborted error has
\* arrived since the caller last started listening) and the step just taken.
VARIABLES
  srSupported, recog, continuousModeRef, isListening, srError, finalTranscript,
  deferred, srMounted, denied, srLast

srVars == <<srSupported, recog, continuousModeRef, isListening, srError,
            finalTranscript, deferred, srMounted, denied, srLast>>
hookVars == <<wsVars, srVars>>

deckVars == <<slides, hasSlides, isLoadingSlides, topic, isGenerating,
              pastPresentations, stored, slidesReq, genReq>>
recVars == <<isRecording, transcript, transcriptRef, recognition, askedAt>>
flagVars == <<isPresenting, shouldContinueRef, isSpeaking, isProcessing>>
vars == <<slides, hasSlides, isLoadingSlides, topic, isGenerating,
          pastPresentations, stored, slidesReq, genReq,
          currentSlide, currentSlideRef, isPresenting, isPresentingRef,
          shouldContinueRef, isSpeaking, isProcessing, aiResponse,
          isRecording, transcript, transcriptRef, recognition,
          chains, nChains, nOps, askedAt,
          wsOpen, wire, last, hookVars>>
appVars == <<deckVars, recVars, flagVars, currentSlide, currentSlideRef,
             isPresentingRef, aiResponse, chains, nChains, nOps, last>>

\* ---------------------------------------------------------------- helpers
Min(a, b) == IF a < b THEN a ELSE b
Max(a, b) == IF a > b THEN a ELSE b

\* A slide list of n slides of deck d (slides are told apart by their deck).
Deck(d, n) == [i \in 1..n |-> d]

\* What localStorage may hold when the component is constructed.
StoredLists ==
  {<<>>} \cup {<<[id |-> 0, topic |-> "T", slides |-> Deck(0, n)]>> : n \in 1..MaxSlides}

\* An outbound status-channel message.
Msg(t, n) == [type |-> t, slide_number |-> n]

\* No message (the hook step just taken was not a send).
NoMsg == Msg("", 0)

\* sendMessage without its readyState test.
SendUnchecked(msgs) == msgs

\* sendMessage: transmitted only while the socket is OPEN, dropped otherwise.
Send(msgs) == IF wsOpen THEN msgs ELSE <<>>

\* The record of the step just taken (observation only; no action reads it).
Step(op) ==
  [op |-> op, kind |-> "", sc |-> FALSE, pre |-> FALSE, fetch |-> "",
   spoke |-> FALSE, cut |-> FALSE, sched |-> FALSE, moved |-> FALSE,
   failed |-> FALSE, hasNext |-> FALSE, n |-> 0, ask |-> 0]

\* useEffect mirrors of isPresenting and currentSlide into their refs.
Effects ==
  /\ isPresentingRef' = isPresenting'
  /\ currentSlideRef' = currentSlide'

\* A pending asynchronous continuation: the function it runs in (kind), what
\* it waits for (pc), the has_next it captured, and three observations:
\* preStop (it existed when stopPresentation ran), askSlide (currentSlide when
\* the question it answers was asked during a presentation, else 0: no
\* assignment of currentSlide yields 0), navigated (its answer carried
\* slide_changed).
Chain(id, kind) ==
  [id |-> id, kind |-> kind, pc |-> "fetch", hasNext |-> FALSE,
   preStop |-> FALSE, askSlide |-> 0, navigated |-> FALSE]

\* window.speechSynthesis.cancel(): every queued or playing utterance leaves
\* the queue; its error event is delivered later.
Cancel(S) ==
  {IF c.pc \in {"queued", "playing"} THEN [c EXCEPT !.pc = "cancelled"] ELSE c : c \in S}

\* The utterances the speech engine holds: queued or being spoken.
ActiveUtterances == {c \in chains : c.pc \in {"queued", "playing"}}

\* speak(text) whose promise the caller does not await: the caller goes on to
\* its advance timer at once.
SpeakNoAwait(old, new, S) == Cancel(S \ {old}) \cup {[new EXCEPT !.pc = "timer"]}

\* speak(text) without the cancel() of line 571.
SpeakNoCancel(old, new, S) == (S \ {old}) \cup {[new EXCEPT !.pc = "queued"]}

\* speak(text): cancel what is queued or playing, then queue the utterance
\* whose end the continuation `new` awaits.
Speak(old, new, S) == Cancel(S \ {old}) \cup {[new EXCEPT !.pc = "queued"]}

\* Which of the two returned trees is rendered (lines 818, 871).
TopicView == ~hasSlides /\ ~isLoadingSlides
MainView == ~TopicView

\* The playback controller sees the status channel only through wsOpen; the
\* hook's own state is not part of its runs.
WsAbstract ==
  /\ socks = <<>>
  /\ wsRef = 0
  /\ timers = {}
  /\ reconnectTimeoutRef = 0
  /\ nTimers = 0
  /\ isConnected = FALSE
  /\ wsMounted = TRUE
  /\ wsLast = [op |-> "", sock |-> 0, msg |-> NoMsg]

SrStep(op) == [op |-> op, issued |-> FALSE, err |-> ""]

\* The playback controller has its own recogniser (initSpeechRecognition); the
\* hook is not part of its runs.
SrAbstract ==
  /\ srSupported = TRUE
  /\ recog = "idle"
  /\ continuousModeRef = FALSE
  /\ isListening = FALSE
  /\ srError = "none"
  /\ finalTranscript = ""
  /\ deferred = 0
  /\ srMounted = TRUE
  /\ denied = FALSE
  /\ srLast = SrStep("")

\* ---------------------------------------------------------------- Init
AppInit ==
  /\ slides = <<>>
  /\ hasSlides = FALSE
  /\ isLoadingSlides = TRUE
  /\ topic = ""
  /\ isGenerating = FALSE
  /\ pastPresentations \in StoredLists
  /\ stored = pastPresentations
  /\ slidesReq = TRUE
  /\ genReq = [active |-> FALSE, id |-> 0, topic |-> "", past |-> <<>>]
  /\ currentSlide = 1
  /\ currentSlideRef = 1
  /\ isPresenting = FALSE
  /\ isPresentingRef = FALSE
  /\ shouldContinueRef = TRUE
  /\ isSpeaking = FALSE
  /\ isProcessing = FALSE
  /\ aiResponse = ""
  /\ isRecording = FALSE
  /\ transcript = ""
  /\ transcriptRef = ""
  /\ recognition \in {"unsupported", "idle"}
  /\ chains = {}
  /\ nChains = 0
  /\ nOps = 0
  /\ askedAt = 0
  /\ wsOpen = FALSE
  /\ wire = <<>>
  /\ last = Step("mount")

Init == AppInit /\ WsAbstract /\ SrAbstract

\* ---------------------------------------------------------------- slides
\* fetchSlides resumes after GET /api/slides: a list of len slides, or a failure.
FetchSlidesReturns(ok, len) ==
  /\ slidesReq
  /\ slidesReq' = FALSE
  /\ isLoadingSlides' = FALSE
  /\ IF ok
       THEN /\ slides' = Deck(0, len)
            /\ hasSlides' = (len > 0)
       ELSE UNCHANGED <<slides, hasSlides>>
  /\ wire' = <<>>
  /\ last' = [Step("fetchSlides") EXCEPT !.failed = ~ok]
  /\ UNCHANGED <<topic, isGenerating, pastPresentations, stored, genReq>>
  /\ UNCHANGED <<currentSlide, aiResponse, chains, nChains, nOps, wsOpen>>
  /\ UNCHANGED flagVars
  /\ UNCHANGED recVars
  /\ UNCHANGED hookVars
  /\ Effects

\* The topic input's onChange (line 845).
TypeTopic(t) ==
  /\ TopicView
  /\ ~isGenerating
  /\ t # topic
  /\ topic' = t
  /\ wire' = <<>>
  /\ last' = Step("setTopic")
  /\ UNCHANGED <<slides, hasSlides, isLoadingSlides, isGenerating,
                 pastPresentations, stored, slidesReq, genReq>>
  /\ UNCHANGED <<currentSlide, aiResponse, chains, nChains, nOps, wsOpen>>
  /\ UNCHANGED flagVars
  /\ UNCHANGED recVars
  /\ UNCHANGED hookVars
  /\ Effects

\* generateSlides up to its await: the request captures topic and the
\* pastPresentations of the render it was created in.
GenerateSlides ==
  /\ TopicView
  /\ ~isGenerating
  /\ topic # ""
  /\ nOps < MaxOps
  /\ nOps' = nOps + 1
  /\ isGenerating' = TRUE
  /\ genReq' = [active |-> TRUE, id |-> nOps + 1, topic |-> topic, past |-> pastPresentations]
  /\ wire' = <<>>
  /\ last' = [Step("generateSlides") EXCEPT !.fetch = "topic"]
  /\ UNCHANGED <<slides, hasSlides, isLoadingSlides, topic, pastPresentations,
                 stored, slidesReq>>
  /\ UNCHANGED <<currentSlide, aiResponse, chains, nChains, wsOpen>>
  /\ UNCHANGED flagVars
  /\ UNCHANGED recVars
  /\ UNCHANGED hookVars
  /\ Effects

\* [newPresentation, ...pastPresentations] without the slice(0, 20).
UpdatedNoSlice(new, past) == <<new>> \o past

\* [newPresentation, ...pastPresentations].slice(0, 20)
Updated(new, past) ==
  SubSeq(<<new>> \o past, 1, Min(HistoryKeep, Len(past) + 1))

\* generateSlides after its fetch, without the setCurrentSlide(1) of line 487.
GenerateReturnsKeepSlide(ok, len) ==
  /\ genReq.active
  /\ genReq' = [active |-> FALSE, id |-> 0, topic |-> "", past |-> <<>>]
  /\ isGenerating' = FALSE
  /\ IF ok
       THEN LET new == [id |-> genReq.id, topic |-> genReq.topic, slides |-> Deck(genReq.id, len)]
                updated == Updated(new, genReq.past)
            IN /\ slides' = Deck(genReq.id, len)
               /\ hasSlides' = TRUE
               /\ pastPresentations' = updated
               /\ stored' = updated
       ELSE UNCHANGED <<slides, hasSlides, pastPresentations, stored>>
  /\ wire' = <<>>
  /\ last' = [Step("generateReturns") EXCEPT !.failed = ~ok, !.moved = ok]
  /\ UNCHANGED <<isLoadingSlides, topic, slidesReq>>
  /\ UNCHANGED <<currentSlide, aiResponse, chains, nChains, nOps, wsOpen>>
  /\ UNCHANGED flagVars
  /\ UNCHANGED recVars
  /\ UNCHANGED hookVars
  /\ Effects

\* generateSlides resumes after POST /api/topic: the generated list (ok), or a
\* network error or non-OK response.
GenerateReturns(ok, len) ==
  /\ genReq.active
  /\ genReq' = [active |-> FALSE, id |-> 0, topic |-> "", past |-> <<>>]
  /\ isGenerating' = FALSE
  /\ IF ok
       THEN LET new == [id |-> genReq.id, topic |-> genReq.topic, slides |-> Deck(genReq.id, len)]
                updated == Updated(new, genReq.past)
            IN /\ slides' = Deck(genReq.id, len)
               /\ hasSlides' = TRUE
               /\ currentSlide' = 1
               /\ pastPresentations' = updated
               /\ stored' = updated
       ELSE UNCHANGED <<slides, hasSlides, currentSlide, pastPresentations, stored>>
  /\ wire' = <<>>
  /\ last' = [Step("generateReturns") EXCEPT !.failed = ~ok, !.moved = ok]
  /\ UNCHANGED <<isLoadingSlides, topic, slidesReq>>
  /\ UNCHANGED <<aiResponse, chains, nChains, nOps, wsOpen>>
  /\ UNCHANGED flagVars
  /\ UNCHANGED recVars
  /\ UNCHANGED hookVars
  /\ Effects

\* A click on a history item of the sidebar.
LoadPresentation(i) ==
  /\ i \in 1..Len(pastPresentations)
  /\ topic' = pastPresentations[i].topic
  /\ slides' = pastPresentations[i].slides
  /\ hasSlides' = TRUE
  /\ currentSlide' = 1
  /\ aiResponse' = ""
  /\ isPresenting' = FALSE
  /\ nOps < MaxOps
  /\ nOps' = nOps + 1
  /\ wire' = <<>>
  /\ last' = [Step("loadPresentation") EXCEPT !.moved = TRUE]
  /\ UNCHANGED <<isLoadingSlides, isGenerating, pastPresentations, stored,
                 slidesReq, genReq>>
  /\ UNCHANGED <<shouldContinueRef, isSpeaking, isProcessing>>
  /\ UNCHANGED <<chains, nChains, wsOpen>>
  /\ UNCHANGED recVars
  /\ UNCHANGED hookVars
  /\ Effects

\* pastPresentations.filter((p) => p.id !== id)
Without(past, id) == SelectSeq(past, LAMBDA p : p.id # id)

\* A click on a history item's delete button.
DeletePresentation(i) ==
  /\ i \in 1..Len(pastPresentations)
  /\ pastPresentations' = Without(pastPresentations, pastPresentations[i].id)
  /\ stored' = pastPresentations'
  /\ nOps < MaxOps
  /\ nOps' = nOps + 1
  /\ wire' = <<>>
  /\ last' = Step("deletePresentation")
  /\ UNCHANGED <<slides, hasSlides, isLoadingSlides, topic, isGenerating,
                 slidesReq, genReq>>
  /\ UNCHANGED <<currentSlide, aiResponse, chains, nChains, wsOpen>>
  /\ UNCHANGED flagVars
  /\ UNCHANGED recVars
  /\ UNCHANGED hookVars
  /\ Effects

\* The "New Topic" button, rendered while not presenting.
ResetPresentation ==
  /\ MainView
  /\ ~isPresenting
  /\ slides' = <<>>
  /\ hasSlides' = FALSE
  /\ topic' = ""
  /\ currentSlide' = 1
  /\ aiResponse' = ""
  /\ isPresenting' = FALSE
  /\ nOps < MaxOps
  /\ nOps' = nOps + 1
  /\ wire' = <<>>
  /\ last' = [Step("resetPresentation") EXCEPT !.moved = TRUE]
  /\ UNCHANGED <<isLoadingSlides, isGenerating, pastPresentations, stored,
                 slidesReq, genReq>>
  /\ UNCHANGED <<shouldContinueRef, isSpeaking, isProcessing>>
  /\ UNCHANGED <<chains, nChains, wsOpen>>
  /\ UNCHANGED recVars
  /\ UNCHANGED hookVars
  /\ Effects

\* ---------------------------------------------------------------- status channel
\* The socket of useWebSocket reaches OPEN, or leaves it.
WsOpens ==
  /\ ~wsOpen
  /\ wsOpen' = TRUE
  /\ wire' = <<>>
  /\ last' = Step("ws.onopen")
  /\ UNCHANGED deckVars
  /\ UNCHANGED <<currentSlide, aiResponse, chains, nChains, nOps>>
  /\ UNCHANGED flagVars
  /\ UNCHANGED recVars
  /\ UNCHANGED hookVars
  /\ Effects

WsCloses ==
  /\ wsOpen
  /\ wsOpen' = FALSE
  /\ wire' = <<>>
  /\ last' = Step("ws.onclose")
  /\ UNCHANGED deckVars
  /\ UNCHANGED <<currentSlide, aiResponse, chains, nChains, nOps>>
  /\ UNCHANGED flagVars
  /\ UNCHANGED recVars
  /\ UNCHANGED hookVars
  /\ Effects

\* ---------------------------------------------------------------- controls
\* startPresentation up to its first await (the Start button is rendered
\* while not presenting and disabled by isProcessing or isLoadingSlides).
StartPresentation ==
  /\ MainView
  /\ ~isPresenting
  /\ ~isProcessing
  /\ ~isLoadingSlides
  /\ nOps < MaxOps
  /\ nOps' = nOps + 1
  /\ isPresenting' = TRUE
  /\ shouldContinueRef' = TRUE
  /\ isProcessing' = TRUE
  /\ nChains' = nChains + 1
  /\ chains' = chains \cup {Chain(nChains + 1, "start")}
  /\ wire' = <<>>
  /\ last' = [Step("startPresentation") EXCEPT !.kind = "start", !.fetch = "start"]
  /\ UNCHANGED deckVars
  /\ UNCHANGED <<currentSlide, isSpeaking, aiResponse, wsOpen>>
  /\ UNCHANGED recVars
  /\ UNCHANGED hookVars
  /\ Effects

\* stopAgent: the "Stop AI" button, rendered while isSpeaking.
StopAgent ==
  /\ MainView
  /\ isSpeaking
  /\ shouldContinueRef' = FALSE
  /\ chains' = Cancel(chains)
  /\ isSpeaking' = FALSE
  /\ wire' = Send(<<Msg("speaking_end", 0), Msg("interrupt", 0)>>)
  /\ last' = Step("stopAgent")
  /\ UNCHANGED deckVars
  /\ UNCHANGED <<currentSlide, isPresenting, isProcessing, aiResponse,
                 nChains, nOps, wsOpen>>
  /\ UNCHANGED recVars
  /\ UNCHANGED hookVars
  /\ Effects

\* stopPresentation: the "End Presentation" button, rendered while presenting.
StopPresentation ==
  /\ MainView
  /\ isPresenting
  /\ shouldContinueRef' = FALSE
  /\ isPresenting' = FALSE
  /\ chains' = {[c EXCEPT !.preStop = TRUE] : c \in Cancel(chains)}
  /\ isSpeaking' = FALSE
  /\ wire' = Send(<<Msg("speaking_end", 0), Msg("interrupt", 0)>>)
  /\ last' = Step("stopPresentation")
  /\ askedAt' = 0    \* a question being recorded no longer interrupts one
  /\ UNCHANGED deckVars
  /\ UNCHANGED <<currentSlide, isProcessing, aiResponse, nChains, nOps, wsOpen>>
  /\ UNCHANGED <<isRecording, transcript, transcriptRef, recognition>>
  /\ UNCHANGED hookVars
  /\ Effects

\* askQuestion: the Ask button (disabled by isProcessing). While recording it
\* cancels the recording; otherwise it interrupts the speech and records.
AskQuestion ==
  /\ MainView
  /\ ~isProcessing
  /\ IF isRecording
       THEN /\ recognition' = IF recognition = "listening" THEN "stopping" ELSE recognition
            /\ transcriptRef' = ""
            /\ transcript' = ""
            /\ last' = Step("cancelRecording")
            /\ wire' = <<>>
            /\ UNCHANGED <<isRecording, askedAt, chains, isSpeaking, nOps,
                           shouldContinueRef>>
       ELSE /\ nOps < MaxOps
            /\ nOps' = nOps + 1
            /\ chains' = Cancel(chains)
            /\ isSpeaking' = FALSE
            /\ shouldContinueRef' = FALSE
            /\ transcriptRef' = ""
            /\ transcript' = ""
            /\ isRecording' = TRUE
            /\ recognition' = IF recognition = "idle" THEN "listening" ELSE recognition
            /\ askedAt' = IF isPresenting THEN currentSlide ELSE 0
            /\ last' = Step("askQuestion")
            /\ wire' = Send(<<Msg("speaking_end", 0)>>)
  /\ UNCHANGED deckVars
  /\ UNCHANGED <<currentSlide, isPresenting, isProcessing, aiResponse,
                 nChains, wsOpen>>
  /\ UNCHANGED hookVars
  /\ Effects

\* The slide numbers SlideNav can pass to onNavigate: Prev (disabled at
\* currentSlide <= 1), Next (disabled at currentSlide >= totalSlides) and one
\* indicator per slide.
NavTargets ==
  (IF currentSlide <= 1 THEN {} ELSE {currentSlide - 1})
    \cup (IF currentSlide >= Len(slides) THEN {} ELSE {currentSlide + 1})
    \cup 1..Len(slides)

\* Math.max(1, Math.min(slideNumber, slides.length)) without the Math.max.
ClampNoFloor(n, total) == Min(n, total)

\* Math.max(1, Math.min(slideNumber, slides.length))
Clamp(n, total) == Max(1, Min(n, total))

\* handleNavigate(n), called by SlideNav (rendered while not presenting,
\* disabled by isProcessing).
HandleNavigate(n) ==
  /\ MainView
  /\ ~isPresenting
  /\ ~isProcessing
  /\ n \in NavTargets
  /\ LET newSlide == Clamp(n, Len(slides))
     IN /\ chains' = Cancel(chains)
        /\ isSpeaking' = FALSE
        /\ currentSlide' = newSlide
        /\ wire' = Send(<<Msg("speaking_end", 0), Msg("slide_update", newSlide)>>)
  /\ last' = [Step("handleNavigate") EXCEPT !.n = n, !.moved = TRUE]
  /\ UNCHANGED deckVars
  /\ UNCHANGED <<isPresenting, shouldContinueRef, isProcessing, aiResponse,
                 nChains, nOps, wsOpen>>
  /\ UNCHANGED recVars
  /\ UNCHANGED hookVars
  /\ Effects

\* ---------------------------------------------------------------- recogniser
\* recognition.onresult: the transcript heard so far.
RecognitionResult(text) ==
  /\ recognition \in {"listening", "stopping"}
  /\ transcriptRef' = text
  /\ transcript' = text
  /\ wire' = <<>>
  /\ last' = Step("recognition.onresult")
  /\ UNCHANGED deckVars
  /\ UNCHANGED <<currentSlide, aiResponse, chains, nChains, nOps, wsOpen>>
  /\ UNCHANGED flagVars
  /\ UNCHANGED <<isRecording, recognition, askedAt>>
  /\ UNCHANGED hookVars
  /\ Effects

\* recognition.onend: a non-empty transcript is sent by sendQuestion, which
\* runs up to its await (POST /api/question).
RecognitionEnd ==
  /\ recognition \in {"listening", "stopping"}
  /\ recognition' = "idle"
  /\ isRecording' = FALSE
  /\ IF transcriptRef # ""
       THEN /\ isProcessing' = TRUE
            /\ nChains' = nChains + 1
            /\ chains' = chains \cup
                 {[Chain(nChains + 1, "question") EXCEPT !.askSlide = askedAt]}
            /\ transcriptRef' = ""
            /\ last' = [Step("recognition.onend") EXCEPT
                          !.kind = "question", !.fetch = "question", !.n = currentSlideRef]
       ELSE /\ last' = Step("recognition.onend")
            /\ UNCHANGED <<isProcessing, nChains, chains, transcriptRef>>
  /\ wire' = <<>>
  /\ UNCHANGED deckVars
  /\ UNCHANGED <<currentSlide, isPresenting, shouldContinueRef, isSpeaking,
                 aiResponse, nOps, wsOpen>>
  /\ askedAt' = 0
  /\ UNCHANGED transcript
  /\ UNCHANGED hookVars
  /\ Effects

\* ---------------------------------------------------------------- playback
\* startPresentation resumes after GET /api/present/start: the service's
\* current_slide and has_next, or a failure (catch, then finally).
StartFetchReturns(c, ok, cs, hn) ==
  /\ c \in chains /\ c.kind = "start" /\ c.pc = "fetch"
  /\ IF ok
       THEN /\ currentSlide' = cs
            /\ aiResponse' = "narration"
            /\ wire' = Send(<<Msg("slide_update", cs)>>)
            /\ chains' = Speak(c, [c EXCEPT !.hasNext = hn], chains)
            /\ UNCHANGED isProcessing
       ELSE /\ chains' = chains \ {c}
            /\ isProcessing' = FALSE
            /\ wire' = <<>>
            /\ UNCHANGED <<currentSlide, aiResponse>>
  /\ last' = [Step("fetchReturns") EXCEPT
                !.kind = "start", !.sc = shouldContinueRef, !.pre = c.preStop,
                !.moved = ok, !.spoke = ok, !.failed = ~ok,
                !.cut = (ok /\ ActiveUtterances # {})]
  /\ UNCHANGED deckVars
  /\ UNCHANGED <<isPresenting, shouldContinueRef, isSpeaking, nChains, nOps, wsOpen>>
  /\ UNCHANGED recVars
  /\ UNCHANGED hookVars
  /\ Effects

\* continuePresentation resumes after GET /api/present/next.
ContinueFetchReturns(c, ok, cs, hn) ==
  /\ c \in chains /\ c.kind = "continue" /\ c.pc = "fetch"
  /\ IF ok /\ shouldContinueRef
       THEN /\ currentSlide' = cs
            /\ aiResponse' = "narration"
            /\ wire' = Send(<<Msg("slide_update", cs)>>)
            /\ chains' = Speak(c, [c EXCEPT !.hasNext = hn], chains)
       ELSE /\ chains' = chains \ {c}
            /\ wire' = <<>>
            /\ UNCHANGED <<currentSlide, aiResponse>>
  /\ last' = [Step("fetchReturns") EXCEPT
                !.kind = "continue", !.sc = shouldContinueRef, !.pre = c.preStop,
                !.moved = (ok /\ shouldContinueRef),
                !.spoke = (ok /\ shouldContinueRef), !.failed = ~ok,
                !.cut = (ok /\ shouldContinueRef /\ ActiveUtterances # {})]
  /\ UNCHANGED deckVars
  /\ UNCHANGED <<nChains, nOps, wsOpen>>
  /\ UNCHANGED flagVars
  /\ UNCHANGED recVars
  /\ UNCHANGED hookVars
  /\ Effects

\* resumePresentation resumes after GET /api/present/slide/{n}.
ResumeFetchReturns(c, ok, hn) ==
  /\ c \in chains /\ c.kind = "resume" /\ c.pc = "fetch"
  /\ IF ok /\ shouldContinueRef
       THEN /\ aiResponse' = "resume"
            /\ chains' = Speak(c, [c EXCEPT !.hasNext = hn], chains)
       ELSE /\ chains' = chains \ {c}
            /\ UNCHANGED aiResponse
  /\ wire' = <<>>
  /\ last' = [Step("fetchReturns") EXCEPT
                !.kind = "resume", !.sc = shouldContinueRef, !.pre = c.preStop,
                !.spoke = (ok /\ shouldContinueRef), !.failed = ~ok,
                !.cut = (ok /\ shouldContinueRef /\ ActiveUtterances # {})]
  /\ UNCHANGED deckVars
  /\ UNCHANGED <<currentSlide, nChains, nOps, wsOpen>>
  /\ UNCHANGED flagVars
  /\ UNCHANGED recVars
  /\ UNCHANGED hookVars
  /\ Effects

\* sendQuestion resumes after POST /api/question: the answer with its
\* slide_changed and target_slide, or a failure (catch, then finally).
QuestionFetchReturns(c, ok, changed, target) ==
  /\ c \in chains /\ c.kind = "question" /\ c.pc = "fetch"
  /\ IF ok
       THEN /\ currentSlide' = IF changed THEN target ELSE currentSlide
            /\ wire' = IF changed THEN Send(<<Msg("slide_update", target)>>) ELSE <<>>
            /\ aiResponse' = "answer"
            /\ chains' = Speak(c, [c EXCEPT !.navigated = changed], chains)
            /\ UNCHANGED <<isProcessing, transcript>>
       ELSE /\ chains' = chains \ {c}
            /\ isProcessing' = FALSE
            /\ transcript' = ""
            /\ wire' = <<>>
            /\ UNCHANGED <<currentSlide, aiResponse>>
  /\ last' = [Step("fetchReturns") EXCEPT
                !.kind = "question", !.sc = shouldContinueRef, !.pre = c.preStop,
                !.moved = (ok /\ changed), !.spoke = ok, !.failed = ~ok,
                !.cut = (ok /\ ActiveUtterances # {})]
  /\ UNCHANGED deckVars
  /\ UNCHANGED <<isPresenting, shouldContinueRef, isSpeaking, nChains, nOps, wsOpen>>
  /\ UNCHANGED <<isRecording, transcriptRef, recognition, askedAt>>
  /\ UNCHANGED hookVars
  /\ Effects

\* utterance.onstart
UtteranceStart(c) ==
  /\ c \in chains /\ c.pc = "queued"
  /\ chains' = (chains \ {c}) \cup {[c EXCEPT !.pc = "playing"]}
  /\ isSpeaking' = TRUE
  /\ wire' = Send(<<Msg("speaking_start", 0)>>)
  /\ last' = [Step("utterance.onstart") EXCEPT !.kind = c.kind]
  /\ UNCHANGED deckVars
  /\ UNCHANGED <<currentSlide, isPresenting, shouldContinueRef, isProcessing,
                 aiResponse, nChains, nOps, wsOpen>>
  /\ UNCHANGED recVars
  /\ UNCHANGED hookVars
  /\ Effects

\* The timer a continuation leaves behind: the 500 ms one calls
\* continuePresentation, the 1000 ms one of sendQuestion resumePresentation.
Timer(c) ==
  [c EXCEPT !.pc = "timer", !.hasNext = FALSE,
            !.askSlide = IF c.kind = "question" THEN c.askSlide ELSE 0,
            !.navigated = (c.kind = "question" /\ c.navigated)]

\* utterance.onend / utterance.onerror (the same body), then the code that
\* awaited speak(): the advance decision of startPresentation,
\* continuePresentation and resumePresentation, the resume decision of
\* sendQuestion, and the finally blocks.
SpeechResolved(c, op) ==
  LET sched ==
        CASE c.kind = "start" -> c.hasNext /\ shouldContinueRef
          [] c.kind = "question" -> isPresentingRef
          [] OTHER -> c.hasNext /\ shouldContinueRef /\ isPresentingRef
  IN /\ isSpeaking' = FALSE
     /\ wire' = Send(<<Msg("speaking_end", 0)>>)
     /\ chains' = IF sched THEN (chains \ {c}) \cup {Timer(c)} ELSE chains \ {c}
     /\ isPresenting' =
          IF c.kind \in {"continue", "resume"} /\ ~sched /\ ~c.hasNext
            THEN FALSE ELSE isPresenting
     /\ shouldContinueRef' =
          IF c.kind = "question" /\ isPresentingRef THEN TRUE ELSE shouldContinueRef
     /\ isProcessing' = IF c.kind \in {"start", "question"} THEN FALSE ELSE isProcessing
     /\ transcript' = IF c.kind = "question" THEN "" ELSE transcript
     /\ last' = [Step(op) EXCEPT
                   !.kind = c.kind, !.sc = shouldContinueRef, !.pre = c.preStop,
                   !.sched = sched, !.hasNext = c.hasNext, !.ask = c.askSlide]
     /\ UNCHANGED deckVars
     /\ UNCHANGED <<currentSlide, aiResponse, nChains, nOps, wsOpen>>
     /\ UNCHANGED <<isRecording, transcriptRef, recognition, askedAt>>
     /\ UNCHANGED hookVars
     /\ Effects

\* The utterance was spoken to its end.
UtteranceEnd(c) ==
  /\ c \in chains /\ c.pc = "playing"
  /\ SpeechResolved(c, "utterance.onend")

\* utterance.onerror without its resolve(): the continuation stays blocked.
UtteranceErrorNoResolve(c) ==
  /\ c \in chains /\ c.pc \in {"queued", "playing", "cancelled"}
  /\ chains' = (chains \ {c}) \cup {[c EXCEPT !.pc = "unresolved"]}
  /\ isSpeaking' = FALSE
  /\ wire' = Send(<<Msg("speaking_end", 0)>>)
  /\ last' = [Step("utterance.onerror") EXCEPT !.kind = c.kind]
  /\ UNCHANGED deckVars
  /\ UNCHANGED <<currentSlide, isPresenting, shouldContinueRef, isProcessing,
                 aiResponse, nChains, nOps, wsOpen>>
  /\ UNCHANGED recVars
  /\ UNCHANGED hookVars
  /\ Effects

\* The utterance failed, or was removed from the queue by cancel().
UtteranceError(c) ==
  /\ c \in chains /\ c.pc \in {"queued", "playing", "cancelled"}
  /\ SpeechResolved(c, "utterance.onerror")

\* The guard with the isPresentingRef test left out.
TimerGuardNoPresenting == shouldContinueRef

\* if (isPresentingRef.current && shouldContinueRef.current) in the timer
\* callback, and the same test on entry of the function it calls.
TimerGuard == isPresentingRef /\ shouldContinueRef

\* A setTimeout callback: it re-checks both refs and calls
\* continuePresentation / resumePresentation, which checks them again and
\* runs up to its await.
TimerFires(c) ==
  /\ c \in chains /\ c.pc = "timer"
  /\ LET pass == TimerGuard
         target == IF c.kind = "question" THEN "resume" ELSE "continue"
     IN /\ chains' = IF pass
                       THEN (chains \ {c}) \cup {[c EXCEPT !.kind = target, !.pc = "fetch"]}
                       ELSE chains \ {c}
        /\ last' = [Step("timerFires") EXCEPT
                      !.kind = c.kind, !.sc = shouldContinueRef, !.pre = c.preStop,
                      !.ask = c.askSlide,
                      !.fetch = IF ~pass THEN ""
                                ELSE IF target = "resume" THEN "slide" ELSE "next",
                      !.n = IF pass /\ target = "resume" THEN currentSlideRef ELSE 0]
  /\ wire' = <<>>
  /\ UNCHANGED deckVars
  /\ UNCHANGED <<currentSlide, aiResponse, nChains, nOps, wsOpen>>
  /\ UNCHANGED flagVars
  /\ UNCHANGED recVars
  /\ UNCHANGED hookVars
  /\ Effects

\* ---------------------------------------------------------------- Next
Next ==
  \/ \E ok \in BOOLEAN, len \in 0..MaxSlides : FetchSlidesReturns(ok, len)
  \/ \E t \in {"", "T"} : TypeTopic(t)
  \/ GenerateSlides
  \/ \E ok \in BOOLEAN, len \in 0..MaxSlides : GenerateReturns(ok, len)
  \/ \E i \in 1..(MaxOps + 1) : LoadPresentation(i)
  \/ \E i \in 1..(MaxOps + 1) : DeletePresentation(i)
  \/ ResetPresentation
  \/ WsOpens
  \/ WsCloses
  \/ StartPresentation
  \/ StopAgent
  \/ StopPresentation
  \/ AskQuestion
  \/ \E n \in NavTargets : HandleNavigate(n)
  \/ \E text \in {"", "q"} : RecognitionResult(text)
  \/ RecognitionEnd
  \/ \E c \in chains, ok \in BOOLEAN, cs \in SlideVals, hn \in BOOLEAN :
       StartFetchReturns(c, ok, cs, hn)
  \/ \E c \in chains, ok \in BOOLEAN, cs \in SlideVals, hn \in BOOLEAN :
       ContinueFetchReturns(c, ok, cs, hn)
  \/ \E c \in chains, ok \in BOOLEAN, hn \in BOOLEAN : ResumeFetchReturns(c, ok, hn)
  \/ \E c \in chains, ok \in BOOLEAN, changed \in BOOLEAN, target \in SlideVals :
       QuestionFetchReturns(c, ok, changed, target)
  \/ \E c \in chains : UtteranceStart(c)
  \/ \E c \in chains : UtteranceEnd(c)
  \/ \E c \in chains : UtteranceError(c)
  \/ \E c \in chains : TimerFires(c)

Spec == Init /\ [][Next]_vars

\* ---------------------------------------------------------------- claims
SpeechDone == {"utterance.onend", "utterance.onerror"}
Narrating == {"start", "continue", "resume"}

\* C1: when the narration resumes after a question that interrupted the
\* presentation, currentSlide is the slide shown when askQuestion() was called.
\* Answers that navigate on purpose (slide_changed) are left out here: the
\* property fails without them.
C1_ResumesOnAskedSlide ==
  \A c \in chains :
    (/\ last.op = "fetchReturns" /\ last.kind = "resume" /\ last.spoke
     /\ c.kind = "resume" /\ c.pc = "queued" /\ c.askSlide # 0 /\ ~c.navigated)
      => currentSlide = c.askSlide

\* C2: stopPresentation() leaves isPresenting false, and no continuation that
\* existed when it ran issues a narration fetch afterwards.
C2_NoFetchAfterStop ==
  /\ last.op = "stopPresentation" => ~isPresenting
  /\ ~(last.fetch \in {"next", "slide"} /\ last.pre)

\* The narration steps in progress: a pending narration fetch, an awaited
\* narration utterance, a pending timer that would pass its guard.
NarrationSteps ==
  {c \in chains :
     \/ c.kind \in Narrating /\ c.pc \in {"fetch", "queued", "playing"}
     \/ c.pc = "timer" /\ isPresentingRef /\ shouldContinueRef}

\* C3: at most one playback chain is live at any moment.
C3_SinglePlaybackChain == Cardinality(NarrationSteps) <= 1

\* C4: a step of startPresentation, continuePresentation or
\* resumePresentation (or a delay timer) that resumes while shouldContinue is
\* false does nothing: no slide change, no utterance, no fetch, no timer.
C4_HaltAtResumption ==
  (/\ last.op \in {"fetchReturns", "timerFires"} \cup SpeechDone
   /\ last.kind \in Narrating \/ last.op = "timerFires"
   /\ ~last.sc)
    => ~last.moved /\ ~last.spoke /\ last.fetch = "" /\ ~last.sched

\* C5: the speech engine never holds two utterances (queued or playing).
C5_AtMostOneUtterance == Cardinality(ActiveUtterances) <= 1

\* C5 witness: speak() was called while an utterance was active, which is now
\* cancelled, and the new one is queued.
C5_Witness ==
  /\ last.spoke /\ last.cut
  /\ \E c \in chains : c.pc = "cancelled"
  /\ \E c \in chains : c.pc = "queued"

\* The narration resumed after a question that interrupted a presentation is
\* being fetched or spoken.
ResumedNarration ==
  \E c \in chains :
    c.kind = "resume" /\ c.askSlide # 0 /\ c.pc \in {"fetch", "queued", "playing"}

\* C6 (its parts a finite run can refute), for a question asked during a
\* presentation that the user has not stopped since: once its answer has been
\* spoken to the end, shouldContinue is true and the resume timer is pending;
\* that timer fetches /api/present/slide/{currentSlide}; and /api/present/next
\* is not called while the resumed narration is still being fetched or spoken.
C6_ResumeBeforeNext ==
  /\ (last.op = "utterance.onend" /\ last.kind = "question" /\ last.ask # 0 /\ ~last.pre)
       => shouldContinueRef /\ last.sched
  /\ (last.op = "timerFires" /\ last.kind = "question" /\ last.ask # 0 /\ last.fetch # "")
       => last.fetch = "slide" /\ last.n = currentSlide
  /\ last.fetch = "next" => ~ResumedNarration

\* C7: at speech completion of a narration: no advance when shouldContinue is
\* false; the advance is scheduled when it is true, has_next is true and the
\* presentation is active; isPresenting is false when it is true and has_next
\* is false.
C7_CompletionTransition ==
  (last.op \in SpeechDone /\ last.kind \in Narrating)
    => /\ ~last.sc => ~last.sched
       /\ (last.sc /\ last.hasNext /\ isPresenting) => last.sched
       /\ (last.sc /\ ~last.hasNext) => ~isPresenting

\* The Start button is rendered and enabled.
CanStart == MainView /\ ~isPresenting /\ ~isProcessing /\ ~isLoadingSlides

\* C8: after a failed narration fetch or question request the controller is
\* Idle: isPresenting and isProcessing are false, the failed continuation is
\* gone, and startPresentation() can be invoked.
C8_FailureLeavesIdle ==
  (last.op = "fetchReturns" /\ last.failed)
    => ~isPresenting /\ ~isProcessing /\ (hasSlides => CanStart)

\* C9: currentSlide is within [1, slides.length] (stated for a non-empty slide
\* list; with no slides no value is within the range).
C9_SlideInRange ==
  Len(slides) >= 1 => 1 <= currentSlide /\ currentSlide <= Len(slides)

\* C10: handleNavigate(n) with at least one slide sets currentSlide to 1 when
\* n < 1, to slides.length when n > slides.length and to n otherwise, and the
\* slide_update it sends carries that value.
C10_NavigateClamps ==
  (last.op = "handleNavigate" /\ Len(slides) >= 1)
    => /\ currentSlide = IF last.n < 1 THEN 1
                         ELSE IF last.n > Len(slides) THEN Len(slides) ELSE last.n
       /\ \A i \in 1..Len(wire) :
            wire[i].type = "slide_update" => wire[i].slide_number = currentSlide
       /\ wsOpen => \E i \in 1..Len(wire) : wire[i].type = "slide_update"

\* C10 witness: handleNavigate was called with n < 1 and sent its event.
C10_Witness ==
  /\ last.op = "handleNavigate" /\ last.n < 1 /\ Len(slides) >= 1
  /\ currentSlide = 1
  /\ \E i \in 1..Len(wire) : wire[i] = Msg("slide_update", 1)

\* C11: isSpeaking is true only while some utterance has started and has
\* neither ended, failed nor been cancelled.
C11_SpeakingHasUtterance == isSpeaking => \E c \in chains : c.pc = "playing"

\* The step changes currentSlide and, the socket being open, transmits a
\* slide_update with the new slide number.
SlideAnnounced ==
  \E i \in 1..Len(wire') : wire'[i] = Msg("slide_update", currentSlide')

\* The step changes isSpeaking and transmits the matching speaking event.
SpeakingAnnounced ==
  \E i \in 1..Len(wire') :
    wire'[i].type = IF isSpeaking' THEN "speaking_start" ELSE "speaking_end"

\* C12: with the socket open, every step that changes currentSlide sends
\* slide_update with the new value, and every step that changes isSpeaking
\* sends speaking_start or speaking_end.
C12_ChangesAnnounced ==
  [][wsOpen => /\ currentSlide' # currentSlide => SlideAnnounced
               /\ isSpeaking' # isSpeaking => SpeakingAnnounced]_vars

\* ------------------------------------------------ the status-channel hook
\* useWebSocket on its own: the sockets it creates, their events, the
\* reconnect timers, unmount, and the sends of its callers.
MaxSockets == 5

SockLive == {"connecting", "open"}

\* wsRef.current?.readyState === WebSocket.OPEN
RefOpen(s, r) == r # 0 /\ s[r] = "open"

WsStep(op, sock) == [op |-> op, sock |-> sock, msg |-> NoMsg]

\* The controller does not move in the runs of the hook.
AppIdle == AppInit /\ pastPresentations = <<>> /\ recognition = "idle"

\* After the mount effect has run connect(): the first socket is connecting,
\* or new WebSocket() threw and the catch block logged it.
WsInit ==
  /\ AppIdle
  /\ SrAbstract
  /\ \/ socks = <<"connecting">> /\ wsRef = 1 /\ wsLast = WsStep("connect", 1)
     \/ socks = <<>> /\ wsRef = 0 /\ wsLast = WsStep("connectThrew", 0)
  /\ timers = {}
  /\ reconnectTimeoutRef = 0
  /\ nTimers = 0
  /\ isConnected = FALSE
  /\ wsMounted = TRUE

\* ws.onopen of socket i.
SocketOpens(i) ==
  /\ i \in DOMAIN socks
  /\ socks[i] = "connecting"
  /\ socks' = [socks EXCEPT ![i] = "open"]
  /\ isConnected' = TRUE
  /\ wsOpen' = RefOpen(socks', wsRef)
  /\ wire' = <<>>
  /\ wsLast' = WsStep("onopen", i)
  /\ UNCHANGED <<wsRef, timers, reconnectTimeoutRef, nTimers, wsMounted>>
  /\ UNCHANGED <<appVars, srVars>>

\* ws.onclose of socket i (the connection failed, was lost, or close() was
\* called on it): isConnected is cleared and a 3000 ms reconnect timer is set.
SocketCloses(i) ==
  /\ i \in DOMAIN socks
  /\ socks[i] \in SockLive \cup {"closing"}
  /\ socks' = [socks EXCEPT ![i] = "closed"]
  /\ isConnected' = FALSE
  /\ nTimers' = nTimers + 1
  /\ timers' = timers \cup {nTimers + 1}
  /\ reconnectTimeoutRef' = nTimers + 1
  /\ wsOpen' = RefOpen(socks', wsRef)
  /\ wire' = <<>>
  /\ wsLast' = WsStep("onclose", i)
  /\ UNCHANGED <<wsRef, wsMounted>>
  /\ UNCHANGED <<appVars, srVars>>

\* A reconnect timer fires and calls connect(): nothing when the current
\* socket is OPEN; else new WebSocket(), which either returns a connecting
\* socket that becomes wsRef.current or throws into the catch block.
ReconnectTimerFires(t, ok) ==
  /\ t \in timers
  /\ RefOpen(socks, wsRef) \/ ~ok \/ Len(socks) < MaxSockets
  /\ timers' = timers \ {t}
  /\ IF RefOpen(socks, wsRef)
       THEN /\ wsLast' = WsStep("connectSkipped", 0)
            /\ UNCHANGED <<socks, wsRef>>
       ELSE IF ok
         THEN /\ socks' = Append(socks, "connecting")
              /\ wsRef' = Len(socks) + 1
              /\ wsLast' = WsStep("connect", Len(socks) + 1)
         ELSE /\ wsLast' = WsStep("connectThrew", 0)
              /\ UNCHANGED <<socks, wsRef>>
  /\ wsOpen' = RefOpen(socks', wsRef')
  /\ wire' = <<>>
  /\ UNCHANGED <<reconnectTimeoutRef, nTimers, isConnected, wsMounted>>
  /\ UNCHANGED <<appVars, srVars>>

\* The effect's cleanup, disconnect(): clears the timer reconnectTimeoutRef
\* names, calls close() on the current socket and forgets it.
Unmount ==
  /\ wsMounted
  /\ wsMounted' = FALSE
  /\ timers' = timers \ {reconnectTimeoutRef}
  /\ socks' = IF wsRef # 0 /\ socks[wsRef] \in SockLive
                THEN [socks EXCEPT ![wsRef] = "closing"] ELSE socks
  /\ wsRef' = 0
  /\ wsOpen' = FALSE
  /\ wire' = <<>>
  /\ wsLast' = WsStep("disconnect", wsRef)
  /\ UNCHANGED <<reconnectTimeoutRef, nTimers, isConnected>>
  /\ UNCHANGED <<appVars, srVars>>

\* sendMessage(m) by a caller: transmitted on the current socket when OPEN.
WsSend(m) ==
  /\ wire' = Send(<<m>>)
  /\ wsLast' = [WsStep("send", IF wsOpen THEN wsRef ELSE 0) EXCEPT !.msg = m]
  /\ UNCHANGED <<socks, wsRef, timers, reconnectTimeoutRef, nTimers,
                 isConnected, wsMounted, wsOpen>>
  /\ UNCHANGED <<appVars, srVars>>

WsMessages == {Msg("interrupt", 0), Msg("slide_update", 1), Msg("speaking_start", 0)}

WsNext ==
  \/ \E i \in 1..MaxSockets : SocketOpens(i)
  \/ \E i \in 1..MaxSockets : SocketCloses(i)
  \/ \E t \in 1..MaxSockets, ok \in BOOLEAN : ReconnectTimerFires(t, ok)
  \/ Unmount
  \/ \E m \in WsMessages : WsSend(m)

WsSpec == WsInit /\ [][WsNext]_vars

\* A socket has closed, the hook is mounted, and the current socket is neither
\* connecting nor open: the channel is down.
ChannelDown ==
  /\ wsMounted
  /\ \E i \in DOMAIN socks : socks[i] = "closed"
  /\ ~(wsRef # 0 /\ socks[wsRef] \in SockLive)

\* C13: while the hook is mounted and the channel is down after a closure, a
\* reconnect timer is pending (so another connect() follows every closure and
\* every failed attempt, a throwing new WebSocket() included); and a send made
\* while the current socket is open is transmitted on it.
C13_ReconnectsForever ==
  /\ [](ChannelDown => timers # {})
  /\ [][(wsLast'.op = "send" /\ RefOpen(socks, wsRef))
          => (Len(wire') = 1 /\ wsLast'.sock = wsRef)]_vars

\* ------------------------------------------------ the speech-input hook
\* useSpeechRecognition (continuous-capable) on its own: the calls of its
\* user and the events of the recogniser.
MaxDeferred == 2

\* recognition.start(): starts an idle recogniser, throws InvalidStateError
\* (caught by every caller) on one that has not ended.
StartCall(r) == IF r = "idle" THEN "starting" ELSE r

\* recognition.stop() / abort(): the recogniser winds down; its end event
\* follows.
StopCall(r) == IF r \in {"starting", "active"} THEN "ending" ELSE r

SrErrors == {"no-speech", "not-allowed", "aborted", "network"}

\* After the mount effect: the recogniser exists, or the error notice is set.
SrInit ==
  /\ AppIdle
  /\ WsAbstract
  /\ srSupported \in BOOLEAN
  /\ recog = "idle"
  /\ continuousModeRef = FALSE
  /\ isListening = FALSE
  /\ srError = IF srSupported THEN "none" ELSE "unsupported"
  /\ finalTranscript = ""
  /\ deferred = 0
  /\ srMounted = TRUE
  /\ denied = FALSE
  /\ srLast = SrStep("mount")

\* startListening(): one-shot mode; stop(), then start() 100 ms later.
StartListening ==
  /\ srMounted
  /\ IF ~srSupported
       THEN UNCHANGED <<continuousModeRef, finalTranscript, srError, recog,
                        deferred, denied>>
       ELSE /\ deferred < MaxDeferred
            /\ continuousModeRef' = FALSE
            /\ finalTranscript' = ""
            /\ srError' = "none"
            /\ recog' = StopCall(recog)
            /\ deferred' = deferred + 1
            /\ denied' = FALSE
  /\ srLast' = SrStep("startListening")
  /\ UNCHANGED <<srSupported, isListening, srMounted>>
  /\ UNCHANGED <<appVars, wsVars, wsOpen, wire>>

\* The 100 ms timer of startListening(): recognitionRef.current.start().
DeferredStart ==
  /\ deferred > 0
  /\ deferred' = deferred - 1
  /\ recog' = StartCall(recog)
  /\ srLast' = [SrStep("deferredStart") EXCEPT !.issued = TRUE]
  /\ UNCHANGED <<srSupported, continuousModeRef, isListening, srError,
                 finalTranscript, srMounted, denied>>
  /\ UNCHANGED <<appVars, wsVars, wsOpen, wire>>

\* stopListening()
StopListening ==
  /\ srMounted
  /\ continuousModeRef' = FALSE
  /\ recog' = IF srSupported THEN StopCall(recog) ELSE recog
  /\ srLast' = SrStep("stopListening")
  /\ UNCHANGED <<srSupported, isListening, srError, finalTranscript, deferred,
                 srMounted, denied>>
  /\ UNCHANGED <<appVars, wsVars, wsOpen, wire>>

\* startContinuousListening(onSpeechDetected)
StartContinuousListening ==
  /\ srMounted
  /\ IF ~srSupported
       THEN /\ srLast' = SrStep("startContinuousListening")
            /\ UNCHANGED <<continuousModeRef, finalTranscript, srError, recog,
                           denied>>
       ELSE /\ continuousModeRef' = TRUE
            /\ finalTranscript' = ""
            /\ srError' = "none"
            /\ recog' = StartCall(recog)
            /\ denied' = FALSE
            /\ srLast' = [SrStep("startContinuousListening") EXCEPT !.issued = TRUE]
  /\ UNCHANGED <<srSupported, isListening, deferred, srMounted>>
  /\ UNCHANGED <<appVars, wsVars, wsOpen, wire>>

\* stopContinuousListening()
StopContinuousListening ==
  /\ srMounted
  /\ continuousModeRef' = FALSE
  /\ recog' = IF srSupported THEN StopCall(recog) ELSE recog
  /\ srLast' = SrStep("stopContinuousListening")
  /\ UNCHANGED <<srSupported, isListening, srError, finalTranscript, deferred,
                 srMounted, denied>>
  /\ UNCHANGED <<appVars, wsVars, wsOpen, wire>>

\* recognition.onstart
RecogStart ==
  /\ recog = "starting"
  /\ recog' = "active"
  /\ isListening' = TRUE
  /\ srError' = "none"
  /\ srLast' = SrStep("onstart")
  /\ UNCHANGED <<srSupported, continuousModeRef, finalTranscript, deferred,
                 srMounted, denied>>
  /\ UNCHANGED <<appVars, wsVars, wsOpen, wire>>

\* recognition.onresult: a final result sets finalTranscript.
RecogResult(final) ==
  /\ recog \in {"active", "ending"}
  /\ finalTranscript' = IF final THEN "q" ELSE finalTranscript
  /\ srLast' = SrStep("onresult")
  /\ UNCHANGED <<srSupported, recog, continuousModeRef, isListening, srError,
                 deferred, srMounted, denied>>
  /\ UNCHANGED <<appVars, wsVars, wsOpen, wire>>

\* recognition.onerror(e): the recogniser has failed and will end. On
\* "no-speech" in continuous mode the handler calls start(), which throws
\* because the recogniser has not ended yet.
RecogError(e) ==
  /\ recog \in {"starting", "active"}
  /\ recog' = "ending"
  /\ srError' = CASE e = "not-allowed" -> "denied"
                  [] e = "network" -> "other"
                  [] OTHER -> srError
  /\ isListening' = FALSE
  /\ denied' = (denied \/ e \in {"not-allowed", "aborted"})
  /\ srLast' = [SrStep("onerror") EXCEPT
                  !.issued = (e = "no-speech" /\ continuousModeRef), !.err = e]
  /\ UNCHANGED <<srSupported, continuousModeRef, finalTranscript, deferred,
                 srMounted>>
  /\ UNCHANGED <<appVars, wsVars, wsOpen, wire>>

\* recognition.onend: in continuous mode recognition.start() again.
RecogEnd ==
  /\ recog = "ending"
  /\ isListening' = FALSE
  /\ recog' = IF continuousModeRef THEN StartCall("idle") ELSE "idle"
  /\ srLast' = [SrStep("onend") EXCEPT !.issued = continuousModeRef]
  /\ UNCHANGED <<srSupported, continuousModeRef, srError, finalTranscript,
                 deferred, srMounted, denied>>
  /\ UNCHANGED <<appVars, wsVars, wsOpen, wire>>

\* The effect's cleanup: continuous mode off, recognition.abort().
SrUnmount ==
  /\ srMounted
  /\ srMounted' = FALSE
  /\ continuousModeRef' = FALSE
  /\ recog' = IF srSupported THEN StopCall(recog) ELSE recog
  /\ srLast' = SrStep("unmount")
  /\ UNCHANGED <<srSupported, isListening, srError, finalTranscript, deferred,
                 denied>>
  /\ UNCHANGED <<appVars, wsVars, wsOpen, wire>>

SrNext ==
  \/ StartListening
  \/ DeferredStart
  \/ StopListening
  \/ StartContinuousListening
  \/ StopContinuousListening
  \/ RecogStart
  \/ \E final \in BOOLEAN : RecogResult(final)
  \/ \E e \in SrErrors : RecogError(e)
  \/ RecogEnd
  \/ SrUnmount

SrSpec == SrInit /\ [][SrNext]_vars

\* C14: in continuous mode, after a not-allowed or aborted error the onerror
\* and onend handlers issue no recognition.start() until the caller starts
\* listening again.
C14_NoRestartAfterDenied ==
  (srLast.op \in {"onerror", "onend"} /\ denied) => ~srLast.issued

\* C15 (the App's part): without a recogniser the program is never in the
\* recording state, and askQuestion() does not halt a running presentation.
C15_UnsupportedDegrades ==
  recognition = "unsupported"
    => /\ ~isRecording
       /\ (last.op = "askQuestion" /\ isPresenting) => shouldContinueRef

\* A continuation that is blocked on the promise of speak().
AwaitsSpeech(i) == \E c \in chains : c.id = i /\ c.pc \notin {"fetch", "timer"}

\* The speech engine delivers the events of the utterance of continuation i.
SpeechEvent(i) ==
  \E c \in chains :
    c.id = i /\ (UtteranceStart(c) \/ UtteranceEnd(c) \/ UtteranceError(c))

\* The slides have been fetched (fetchSlides succeeded with MaxSlides slides).
SpeechInit ==
  /\ slides = Deck(0, MaxSlides)
  /\ hasSlides = TRUE
  /\ isLoadingSlides = FALSE
  /\ topic = ""
  /\ isGenerating = FALSE
  /\ pastPresentations = <<>>
  /\ stored = <<>>
  /\ slidesReq = FALSE
  /\ genReq = [active |-> FALSE, id |-> 0, topic |-> "", past |-> <<>>]
  /\ currentSlide = 1
  /\ currentSlideRef = 1
  /\ isPresenting = FALSE
  /\ isPresentingRef = FALSE
  /\ shouldContinueRef = TRUE
  /\ isSpeaking = FALSE
  /\ isProcessing = FALSE
  /\ aiResponse = ""
  /\ isRecording = FALSE
  /\ transcript = ""
  /\ transcriptRef = ""
  /\ recognition = "idle"
  /\ chains = {}
  /\ nChains = 0
  /\ nOps = 0
  /\ askedAt = 0
  /\ wsOpen = FALSE
  /\ wire = <<>>
  /\ last = Step("fetchSlides")
  /\ WsAbstract
  /\ SrAbstract

\* Every step that calls speak() or stopSpeaking(), or that a call of them
\* waits for.
SpeechNext ==
  \/ StartPresentation
  \/ StopAgent
  \/ StopPresentation
  \/ AskQuestion
  \/ \E n \in NavTargets : HandleNavigate(n)
  \/ \E text \in {"", "q"} : RecognitionResult(text)
  \/ RecognitionEnd
  \/ \E c \in chains, ok \in BOOLEAN, cs \in SlideVals, hn \in BOOLEAN :
       StartFetchReturns(c, ok, cs, hn)
  \/ \E c \in chains, ok \in BOOLEAN, cs \in SlideVals, hn \in BOOLEAN :
       ContinueFetchReturns(c, ok, cs, hn)
  \/ \E c \in chains, ok \in BOOLEAN, hn \in BOOLEAN : ResumeFetchReturns(c, ok, hn)
  \/ \E c \in chains, ok \in BOOLEAN, changed \in BOOLEAN, target \in SlideVals :
       QuestionFetchReturns(c, ok, changed, target)
  \/ \E c \in chains : UtteranceStart(c)
  \/ \E c \in chains : UtteranceEnd(c)
  \/ \E c \in chains : UtteranceError(c)
  \/ \E c \in chains : TimerFires(c)

\* The controller with a speech engine that does deliver the events of every
\* utterance it was handed.
SpeechSpec ==
  SpeechInit /\ [][SpeechNext]_vars /\ \A i \in 1..MaxOps : WF_vars(SpeechEvent(i))

\* C16: every promise of speak() is eventually resolved: no continuation stays
\* blocked on speech, whether its utterance ends, fails, is cancelled by
\* stopSpeaking() or is pre-empted by a later speak().
C16_SpeakResolves == \A i \in 1..MaxOps : AwaitsSpeech(i) ~> ~AwaitsSpeech(i)

\* C16 witness: a continuation is blocked on an utterance that was cancelled.
C16_Witness == \E c \in chains : c.pc = "cancelled" /\ AwaitsSpeech(c.id)

\* The Ask button is rendered and enabled.
CanAsk == MainView /\ ~isProcessing

\* C17: while a narration utterance is being spoken during a presentation,
\* askQuestion() is available.
C17_AskDuringNarration ==
  (isPresenting /\ \E c \in chains : c.kind \in Narrating /\ c.pc = "playing")
    => CanAsk

\* C18: a successful generateSlides() leaves exactly the returned list as
\* slides (no slide of another deck) and currentSlide at 1; a failed one
\* clears isGenerating and changes nothing else of the presentation.
C18_GenerateFrame ==
  [][(last'.op = "generateReturns")
       => IF last'.failed
            THEN /\ ~isGenerating'
                 /\ UNCHANGED <<slides, currentSlide, hasSlides, pastPresentations,
                                stored, topic, aiResponse, flagVars>>
            ELSE /\ \A i \in DOMAIN slides' : slides'[i] = genReq.id
                 /\ hasSlides'
                 /\ currentSlide' = 1]_vars

\* C18 witness: a generation succeeded while a stored presentation existed.
C18_Witness ==
  /\ last.op = "generateReturns" /\ ~last.failed
  /\ Len(slides) >= 1 /\ currentSlide = 1
  /\ Len(pastPresentations) >= 2

\* C19: a delay timer that fires issues a narration fetch only if
\* isPresentingRef and shouldContinueRef are both true at that moment.
C19_TimerRechecks ==
  [][(last'.op = "timerFires" /\ last'.fetch # "")
       => (isPresentingRef /\ shouldContinueRef)]_vars

\* C19 witness: a timer fired after the presentation had been stopped and was
\* rejected.
C19_Witness ==
  /\ last.op = "timerFires" /\ last.fetch = "" /\ last.pre
  /\ ~isPresentingRef

\* The steps one continuation may take: speak() only when its fetch has
\* returned, the advance timer only when its speech has resolved, the next
\* fetch only from that timer; a new continuation starts with its fetch.
CycleOrdered(old, new) ==
  /\ (new.pc = "queued" /\ old.pc # "queued") => old.pc = "fetch"
  /\ (new.pc = "timer" /\ old.pc # "timer")
       => old.pc \in {"queued", "playing", "cancelled"}
  /\ (new.pc = "fetch" /\ old.pc # "fetch") => old.pc = "timer"

\* C20: within one playback cycle the narration fetch returns before speak()
\* is called, the advance decision (the timer, or the end of the presentation)
\* is taken only when that speak() has resolved, and the next fetch is issued
\* only after that.
C20_CycleOrder ==
  [][/\ \A new \in chains' :
          IF \E old \in chains : old.id = new.id
            THEN \A old \in chains : old.id = new.id => CycleOrdered(old, new)
            ELSE new.pc = "fetch"
     /\ last'.spoke => last'.op = "fetchReturns"
     /\ last'.sched => last'.op \in SpeechDone
     /\ (last'.kind \in Narrating /\ isPresenting /\ ~isPresenting')
          => last'.op \in SpeechDone]_vars

\* C20 witness: a second cycle has begun: the advance timer set after the
\* first slide's speech resolved has fired and issued /api/present/next.
C20_Witness ==
  /\ last.op = "timerFires" /\ last.fetch = "next"
  /\ \E c \in chains : c.kind = "continue" /\ c.pc = "fetch"

\* C21: a send made while the current socket is not OPEN transmits nothing and
\* changes nothing of the hook; and whatever is transmitted is transmitted by
\* a send step on the open socket and is the one message of that call, so a
\* dropped message is never transmitted later.
C21_SendFireAndForget ==
  [][/\ (wsLast'.op = "send" /\ ~RefOpen(socks, wsRef))
          => /\ wire' = <<>>
             /\ UNCHANGED <<socks, wsRef, timers, reconnectTimeoutRef, nTimers,
                            isConnected, wsMounted>>
     /\ wire' # <<>>
          => /\ wsLast'.op = "send"
             /\ RefOpen(socks, wsRef)
             /\ wire' = <<wsLast'.msg>>]_vars

\* C21 witness: a message was dropped while the socket of a reconnect attempt
\* was still connecting.
C21_Witness ==
  /\ wsLast.op = "send" /\ wsLast.sock = 0 /\ wire = <<>>
  /\ Len(socks) >= 2 /\ wsRef # 0 /\ socks[wsRef] = "connecting"

\* ------------------------------------------------ the presentation history
\* A stored history of n records, newest first: the ids are the Date.now() of
\* their creation, so older records have smaller ids, all of them smaller than
\* the ids of the records generated in this run.
StoredOfLen(n) ==
  [i \in 1..n |-> [id |-> 0 - i, topic |-> "T", slides |-> Deck(0 - i, 1)]]

\* What localStorage may hold: nothing, one record, a list one short of the
\* limit, a full list.
HistoryLists == {StoredOfLen(n) : n \in {0, 1, HistoryKeep - 1, HistoryKeep}}

HistoryInit ==
  /\ slides = <<>>
  /\ hasSlides = FALSE
  /\ isLoadingSlides = TRUE
  /\ topic = ""
  /\ isGenerating = FALSE
  /\ pastPresentations \in HistoryLists
  /\ stored = pastPresentations
  /\ slidesReq = TRUE
  /\ genReq = [active |-> FALSE, id |-> 0, topic |-> "", past |-> <<>>]
  /\ currentSlide = 1
  /\ currentSlideRef = 1
  /\ isPresenting = FALSE
  /\ isPresentingRef = FALSE
  /\ shouldContinueRef = TRUE
  /\ isSpeaking = FALSE
  /\ isProcessing = FALSE
  /\ aiResponse = ""
  /\ isRecording = FALSE
  /\ transcript = ""
  /\ transcriptRef = ""
  /\ recognition = "idle"
  /\ chains = {}
  /\ nChains = 0
  /\ nOps = 0
  /\ askedAt = 0
  /\ wsOpen = FALSE
  /\ wire = <<>>
  /\ last = Step("mount")
  /\ WsAbstract
  /\ SrAbstract

\* Every step that reads or writes the slide list or the history.
HistoryNext ==
  \/ \E ok \in BOOLEAN, len \in 0..MaxSlides : FetchSlidesReturns(ok, len)
  \/ \E t \in {"", "T"} : TypeTopic(t)
  \/ GenerateSlides
  \/ \E ok \in BOOLEAN, len \in 0..MaxSlides : GenerateReturns(ok, len)
  \/ \E i \in 1..(HistoryKeep + 1) : LoadPresentation(i)
  \/ \E i \in 1..(HistoryKeep + 1) : DeletePresentation(i)
  \/ ResetPresentation

HistorySpec == HistoryInit /\ [][HistoryNext]_vars

\* The list is ordered newest first.
NewestFirst(past) ==
  \A i, j \in 1..Len(past) : i < j => past[i].id > past[j].id

RecordingInit ==
  /\ slides = Deck(0, MaxSlides)
  /\ hasSlides = TRUE
  /\ isLoadingSlides = FALSE
  /\ topic = ""
  /\ isGenerating = FALSE
  /\ pastPresentations = <<>>
  /\ stored = <<>>
  /\ slidesReq = FALSE
  /\ genReq = [active |-> FALSE, id |-> 0, topic |-> "", past |-> <<>>]
  /\ currentSlide = 1
  /\ currentSlideRef = 1
  /\ isPresenting = FALSE
  /\ isPresentingRef = FALSE
  /\ shouldContinueRef = FALSE
  /\ isSpeaking = FALSE
  /\ isProcessing = FALSE
  /\ aiResponse = ""
  /\ isRecording = TRUE
  /\ transcript = ""
  /\ transcriptRef = ""
  /\ recognition = "listening"
  /\ chains = {}
  /\ nChains = 0
  /\ nOps = 0
  /\ askedAt = 0
  /\ wsOpen = FALSE
  /\ wire = <<>>
  /\ last = Step("askQuestion")
  /\ WsAbstract
  /\ SrAbstract

\* The Start and Ask buttons, the recogniser, the requests, the speech events
\* and the timers, with a service that answers with slide numbers in range.
RecordingNext ==
  \/ StartPresentation
  \/ AskQuestion
  \/ \E text \in {"", "q"} : RecognitionResult(text)
  \/ RecognitionEnd
  \/ \E c \in chains, ok \in BOOLEAN, cs \in 1..MaxSlides, hn \in BOOLEAN :
       StartFetchReturns(c, ok, cs, hn)
  \/ \E c \in chains, ok \in BOOLEAN, cs \in 1..MaxSlides, hn \in BOOLEAN :
       ContinueFetchReturns(c, ok, cs, hn)
  \/ \E c \in chains, ok \in BOOLEAN, hn \in BOOLEAN : ResumeFetchReturns(c, ok, hn)
  \/ \E c \in chains, ok \in BOOLEAN, changed \in BOOLEAN, target \in 1..MaxSlides :
       QuestionFetchReturns(c, ok, changed, target)
  \/ \E c \in chains : UtteranceStart(c)
  \/ \E c \in chains : UtteranceEnd(c)
  \/ \E c \in chains : UtteranceError(c)
  \/ \E c \in chains : TimerFires(c)

\* The controller from a recording in progress.
RecordingSpec == RecordingInit /\ [][RecordingNext]_vars

\* sendQuestion() has just completed: its finally block ran, after the answer
\* was spoken or after the request failed.
QuestionCompleted ==
  /\ last.kind = "question"
  /\ last.op \in SpeechDone \/ (last.op = "fetchReturns" /\ last.failed)

\* C23: when sendQuestion() completes, transcript and transcriptRef are both
\* empty; and an idle recogniser leaves no transcript behind that a later end
\* event could send again.
C23_QuestionCleared ==
  /\ QuestionCompleted => (transcript = "" /\ transcriptRef = "")
  /\ recognition = "idle" => transcriptRef = ""

\* Something is pending that can move the presentation on: a request, an
\* utterance whose end is awaited, a delay timer, or a recording the
\* recogniser will end.
StepPending ==
  \/ chains # {}
  \/ recognition \in {"listening", "stopping"}

\* C24: while isPresenting is true some playback step or question step is
\* pending.
C24_PresentingProgresses == isPresenting => StepPending

\* C25: once disconnect() has run, no reconnect timer is pending and no
\* socket is created.
C25_QuietAfterUnmount ==
  /\ [](~wsMounted => timers = {})
  /\ [][~wsMounted => Len(socks') = Len(socks)]_vars

\* ------------------------------------------------ the effect run again
\* React runs the mount effect again after its cleanup on the same hook
\* instance (the refs and the state are kept): connect() after disconnect().
\* wsRef.current is null then, so connect() goes on to new WebSocket().
Remount(ok) ==
  /\ ~wsMounted
  /\ ~ok \/ Len(socks) < MaxSockets
  /\ wsMounted' = TRUE
  /\ IF ok
       THEN /\ socks' = Append(socks, "connecting")
            /\ wsRef' = Len(socks) + 1
            /\ wsLast' = WsStep("connect", Len(socks) + 1)
       ELSE /\ wsLast' = WsStep("connectThrew", 0)
            /\ UNCHANGED <<socks, wsRef>>
  /\ wsOpen' = RefOpen(socks', wsRef')
  /\ wire' = <<>>
  /\ UNCHANGED <<timers, reconnectTimeoutRef, nTimers, isConnected>>
  /\ UNCHANGED <<appVars, srVars>>

WsEffectNext ==
  \/ WsNext
  \/ \E ok \in BOOLEAN : Remount(ok)

\* The hook with an effect that may be cleaned up and run again.
WsEffectSpec == WsInit /\ [][WsEffectNext]_vars

\* The sockets connect() created that are connecting or open.
LiveSockets == {i \in DOMAIN socks : socks[i] \in SockLive}

\* C26: at most one socket is connecting or open, and while the hook is
\* mounted isConnected is true exactly when the socket wsRef names is open.
C26_OneLiveSocket ==
  /\ Cardinality(LiveSockets) <= 1
  /\ wsMounted => (isConnected <=> RefOpen(socks, wsRef))

\* C27: the end event of a recording that askQuestion() cancelled (the
\* recogniser was told to stop) sends no question.
C27_CancelSendsNothing ==
  [][(recognition = "stopping" /\ last'.op = "recognition.onend")
       => last'.fetch # "question"]_vars

\* C28: a narration fetch of continuePresentation / resumePresentation that
\* was pending when loadPresentation() or resetPresentation() ran, and returns
\* next, leaves currentSlide at 1 and sets and speaks no narration.
C28_LoadDetachesPlayback ==
  [][(/\ last.op \in {"loadPresentation", "resetPresentation"}
      /\ last'.op = "fetchReturns"
      /\ last'.kind \in {"continue", "resume"})
       => (currentSlide' = 1 /\ ~last'.moved /\ ~last'.spoke /\ aiResponse' = "")]_vars

\* C29: a speaking_end is transmitted only by a step that begins with a
\* speaking_start outstanding. (setIsSpeaking and sendSpeakingStatus are
\* always called together with the same argument, so isSpeaking is true
\* exactly when the last speaking status handed to the channel was a start.)
C29_SpeakingAlternates ==
  [][\A i \in 1..Len(wire') : wire'[i].type = "speaking_end" => isSpeaking]_vars

\* The calls of startPresentation() and sendQuestion() that have begun and
\* not reached their finally block: the request or the awaited speech is
\* pending.
InFlight ==
  {c \in chains : c.kind \in {"start", "question"} /\ c.pc # "timer"}

\* C30: isProcessing is true while startPresentation() or sendQuestion() is
\* in flight.
C30_ProcessingWhileInFlight == InFlight # {} => isProcessing

\* C31: the deferred start of an earlier startListening() that fires right
\* after stopListening() has returned (the caller has not started listening
\* again) does not start the recogniser.
C31_StopWinsOverStart ==
  [][(srLast.op = "stopListening" /\ srLast'.op = "deferredStart")
       => recog' # "starting"]_vars

====
